---- MODULE Spec2Model ----
(***************************************************************************)
(* Model of export_powerbi_noedge.py: Power BI tabs -> screenshots -> one  *)
(* PDF.  The script is one sequential procedure (main) with four helpers   *)
(* (tab_url, wait_fixed, find_report_canvas, screenshot_clean,             *)
(* merge_pngs_to_pdf).  The browser, the operator, the image codec and the *)
(* PDF writer are outside the script: what they return is drawn with \E.   *)
(*                                                                         *)
(*   Spec       a whole run of main()                                      *)
(*   SpecCrop   the crop step of screenshot_clean on bounded captures      *)
(*   SpecMerge  merge_pngs_to_pdf on bounded lists of images               *)
(***************************************************************************)
EXTENDS Integers, Sequences, FiniteSets, TLC

VARIABLES
    SECTIONS,             \* configured view identifiers, in export order
    USE_ELEMENT_CAPTURE,  \* configuration flag
    CROP_MARGINS,         \* configuration: [left, right, top, bottom]
    pc,                   \* position of main()
    browser,              \* "none" | "open" | "closed" | "stopped"
    url,                  \* the address the page shows
    resp,                 \* the operator's answer, as typed (a sequence of characters)
    i,                    \* 1-based loop ordinal of main's for loop
    sel,                  \* index into CANVAS_SELECTORS inside find_report_canvas
    probes,               \* wait_for calls of the current find_report_canvas call
    canvas_loc,           \* result of find_report_canvas: selector index, 0 = None
    fullShot,             \* what page.screenshot(full_page=True) last produced
    disk,                 \* files of OUTPUT_DIR: path -> image
    shots,                \* main's list of image paths
    c,                    \* pages of the reportlab canvas, in memory
    pdf,                  \* OUTPUT_PDF on disk: NoPdf or its pages
    err,                  \* "none" | "nav" | "locator": the uncaught exception
    failedAt,             \* ordinal of the view whose navigation raised (0: the first open)
    trace                 \* the externally visible events, in order

vars == << SECTIONS, USE_ELEMENT_CAPTURE, CROP_MARGINS, pc, browser, url, resp, i, sel,
           probes, canvas_loc, fullShot, disk, shots, c, pdf, err, failedAt, trace >>

(***************************************************************************)
(* Bounds of the model.                                                    *)
(***************************************************************************)
MaxSections == 2   \* views configured in a run of Spec
MaxDim      == 3   \* SpecCrop: capture width/height range 1..MaxDim
MaxMargin   == 3   \* SpecCrop: margins range -1..MaxMargin
MaxImages   == 2   \* SpecMerge: images handed to merge_pngs_to_pdf

(***************************************************************************)
(* USER CONFIG                                                             *)
(***************************************************************************)
AllSections ==
    << "aee1ca53a294adcd19d6", "f3068a3490443d692480", "bcef587a2687c468c590",
       "1d8509acae2a7c233b94", "cf3c2bc02309c11cf0d6", "a295e311cdc72150e15e",
       "fa92017d1ee22557b834", "7f44c7593fdc0788af2b", "c5b8d2e47f0c7ddcbb53",
       "5df08783c0b6d7388b5f" >>

AFTER_NAV_WAIT_SEC == 4
RENDER_BUFFER_SEC  == 3
VIEWPORT_W == 1920
VIEWPORT_H == 1200

CANVAS_SELECTORS ==
    << "div.reportCanvas", "div[aria-label=Report canvas]",
       "[data-testid=report-view-container]", "div.visual-container-host" >>

SourceMargins == [left |-> 140, right |-> 0, top |-> 0, bottom |-> 145]
ZeroMargins   == [left |-> 0, right |-> 0, top |-> 0, bottom |-> 0]

dpi_hint == 96

(***************************************************************************)
(* Values                                                                  *)
(***************************************************************************)
NoDpi    == << >>             \* im.info has no "dpi" key
NoPdf    == << "absent" >>    \* OUTPUT_PDF does not exist
NoImage  == [w |-> 0, h |-> 0, dpi |-> NoDpi,
             bytes |-> [enc |-> "none", of |-> "none", view |-> 0, sel |-> 0,
                        box |-> <<0, 0, 0, 0>>]]
Unset    == << "unset" >>     \* input() has not returned yet
Whitespace == {" ", "\t"}

Max(a, b) == IF a >= b THEN a ELSE b

(***************************************************************************)
(* tab_url                                                                 *)
(***************************************************************************)
CHROMELESS == TRUE

tab_url(section_id) ==
    [base |-> << "https://app.powerbi.com/groups", "34206745-f731-4cf0-abb3-60f8c6063a17",
                 "reports", "9b1ef4dc-67e0-4fb0-b7c0-a60b13d56d9b", section_id >>,
     qs   |-> IF CHROMELESS
              THEN << "experience=power-bi", "clientSideAuth=0", "chromeless=1",
                      "filterPaneEnabled=false", "navContentPaneEnabled=false" >>
              ELSE << "experience=power-bi", "clientSideAuth=0" >>]

(***************************************************************************)
(* str.strip().lower() of the operator's answer                            *)
(***************************************************************************)
RECURSIVE LStrip(_)
LStrip(s) ==
    IF s = << >> THEN << >>
    ELSE IF Head(s) \in Whitespace THEN LStrip(Tail(s)) ELSE s

RECURSIVE RStrip(_)
RStrip(s) ==
    IF s = << >> THEN << >>
    ELSE IF s[Len(s)] \in Whitespace THEN RStrip(SubSeq(s, 1, Len(s) - 1)) ELSE s

Strip(s) == RStrip(LStrip(s))

LowerChar(ch) ==
    CASE ch = "Y" -> "y"
      [] ch = "N" -> "n"
      [] ch = "E" -> "e"
      [] ch = "S" -> "s"
      [] OTHER    -> ch

Lower(s) == [k \in DOMAIN s |-> LowerChar(s[k])]

(***************************************************************************)
(* f"tab_{i:02d}_{sec}.png" and Path.with_suffix                           *)
(***************************************************************************)
DigitChars == << "0", "1", "2", "3", "4", "5", "6", "7", "8", "9" >>

RECURSIVE Decimal(_)
Decimal(n) ==
    IF n < 10 THEN << DigitChars[n + 1] >>
    ELSE Decimal(n \div 10) \o << DigitChars[(n % 10) + 1] >>

\* format spec 02d: decimal, left-padded with zeros to width 2
Pad2(n) == IF Len(Decimal(n)) < 2 THEN << "0" >> \o Decimal(n) ELSE Decimal(n)

ImgPath(n, sec) == [stem |-> << "tab_", Pad2(n), "_", sec >>, suffix |-> ".png"]

WithSuffix(path, suffix) == [path EXCEPT !.suffix = suffix]

(***************************************************************************)
(* The files of OUTPUT_DIR                                                 *)
(***************************************************************************)
EmptyDir == [p \in {} |-> NoImage]

WriteFile(d, path, img) ==
    [p \in (DOMAIN d) \cup {path} |-> IF p = path THEN img ELSE d[p]]

RenameFile(d, src, dst) ==
    [p \in ((DOMAIN d) \ {src}) \cup {dst} |-> IF p = dst THEN d[src] ELSE d[p]]

(***************************************************************************)
(* screenshot_clean: the margin crop                                       *)
(***************************************************************************)
\* variant: the crop branch taken whatever the margins
AnyMargin_Always(m) == TRUE

\* any(CROP_MARGINS.values()): a non-zero margin, negative ones included
AnyMargin(m) == m.left # 0 \/ m.right # 0 \/ m.top # 0 \/ m.bottom # 0

\* variant: the box given as (x, y, width, height) instead of (x0, y0, x1, y1)
CropBox_AsWidthHeight(w, h, m) ==
    LET left   == Max(0, m.left)
        right  == Max(0, m.right)
        top    == Max(0, m.top)
        bottom == Max(0, m.bottom)
    IN  << left, top, Max(left, w - right - left), Max(top, h - bottom - top) >>

CropBox(w, h, m) ==
    LET left   == Max(0, m.left)
        right  == Max(0, m.right)
        top    == Max(0, m.top)
        bottom == Max(0, m.bottom)
    IN  << left, top, Max(left, w - right), Max(top, h - bottom) >>

\* PIL's Image.crop((l, t, r, b)) returns an image of size (r - l, b - t)
CropSize(box) == << box[3] - box[1], box[4] - box[2] >>

(***************************************************************************)
(* merge_pngs_to_pdf: the page size of one image                           *)
(***************************************************************************)
RECURSIVE Gcd(_, _)
Gcd(a, b) == IF b = 0 THEN a ELSE Gcd(b, a % b)

\* the exact value n/d, in lowest terms
Frac(n, d) == IF n = 0 THEN << 0, 1 >> ELSE << n \div Gcd(n, d), d \div Gcd(n, d) >>

\* im.info.get("dpi", (dpi_hint, dpi_hint))[0] or dpi_hint
ImgDpi(im) ==
    LET info == IF im.dpi = NoDpi THEN << dpi_hint, dpi_hint >> ELSE im.dpi
    IN  IF info[1] = 0 THEN dpi_hint ELSE info[1]

\* (w_px * px_to_pt, h_px * px_to_pt) with px_to_pt = 72.0 / img_dpi
PageSize(im) == << Frac(im.w * 72, ImgDpi(im)), Frac(im.h * 72, ImgDpi(im)) >>


(***************************************************************************)
(* What the world outside the script may hand back                         *)
(***************************************************************************)
DEVICE_SCALE_FACTOR == 2

Answers ==
    { << "y" >>, << " ", "Y", "\t" >>, << "n" >>, << "N" >>,
      << >>, << " " >>, << "y", "e", "s" >>, << "y", " ", "y" >> }

ProbeOutcomes == {"visible", "timeout", "error"}

\* pixel sizes of a full-page capture: the viewport, and the viewport at the scale factor
FullSizes ==
    { << VIEWPORT_W, VIEWPORT_H >>,
      << VIEWPORT_W * DEVICE_SCALE_FACTOR, VIEWPORT_H * DEVICE_SCALE_FACTOR >> }

ElementSizes == { << 1780, 1055 >> }

\* density metadata a PNG encoder may or may not embed
ShotDpis == { NoDpi, << 72, 144 >> }

MarginChoices ==
    { SourceMargins, ZeroMargins,
      [left |-> 1920, right |-> 0, top |-> 0, bottom |-> 1200],
      [left |-> 2000, right |-> 0, top |-> 1300, bottom |-> 0] }

Blank == [base |-> << "about:blank" >>, qs |-> << >>]

Event(ev, view, secs) == [ev |-> ev, view |-> view, secs |-> secs]

(***************************************************************************)
(* main(), step by step                                                    *)
(***************************************************************************)
N == Len(SECTIONS)

img_path == ImgPath(i, SECTIONS[i])
tmp_full == WithSuffix(img_path, ".full.png")

\* variant: the prompt taken as "anything but n goes on"
Accepted_UnlessNo(r) == Lower(Strip(r)) # << "n" >>

\* resp == "y" after .strip().lower()
Accepted(r) == Lower(Strip(r)) = << "y" >>

\* variant: the two sleeps exchanged
wait_fixed_Swapped == << RENDER_BUFFER_SEC, AFTER_NAV_WAIT_SEC >>

\* wait_fixed: the two sleeps, in the order they are made
wait_fixed == << AFTER_NAV_WAIT_SEC, RENDER_BUFFER_SEC >>

\* variant: the candidates walked from the last to the first
SelectorAt_Reversed(k) == CANVAS_SELECTORS[Len(CANVAS_SELECTORS) + 1 - k]

\* find_report_canvas: the selector tried at the k-th turn of its loop
SelectorAt(k) == CANVAS_SELECTORS[k]

\* variant: only PWTimeout is caught
Caught_TimeoutOnly(o) == o = "timeout"

\* find_report_canvas: the wait_for failures its two except clauses swallow
Caught(o) == o \in {"timeout", "error"}

\* variant: the list walked from its end
NextImage_Reversed(cv, images) == images[Len(images) - Len(cv)]

\* merge_pngs_to_pdf: the image its loop takes when the canvas holds cv pages
NextImage(cv, images) == images[Len(cv) + 1]

Init ==
    /\ \E n \in 1 .. MaxSections : SECTIONS = SubSeq(AllSections, 1, n)
    /\ USE_ELEMENT_CAPTURE \in BOOLEAN
    /\ CROP_MARGINS \in MarginChoices
    /\ pc = "start"
    /\ browser = "none"
    /\ url = Blank
    /\ resp = Unset
    /\ i = 0
    /\ sel = 0
    /\ probes = << >>
    /\ canvas_loc = ""
    /\ fullShot = NoImage
    /\ disk = EmptyDir
    /\ shots = << >>
    /\ c = << >>
    /\ pdf = NoPdf
    /\ err = "none"
    /\ failedAt = 0
    /\ trace = << >>

\* lines 165-181: mkdir, launch the persistent context, open the first tab
OpenFirst ==
    /\ pc = "start"
    /\ trace' = Append(trace, Event("open_first", 1, 0))
    /\ \/ /\ browser' = "open"
          /\ url' = tab_url(SECTIONS[1])
          /\ pc' = "prompt"
          /\ UNCHANGED << err, failedAt >>
       \/ /\ browser' = "stopped"
          /\ pc' = "crashed"
          /\ err' = "nav"
          /\ failedAt' = 0
          /\ UNCHANGED url
    /\ UNCHANGED << SECTIONS, USE_ELEMENT_CAPTURE, CROP_MARGINS, resp, i, sel, probes,
                    canvas_loc, fullShot, disk, shots, c, pdf >>

\* lines 183-192: the operator's answer
Confirm ==
    /\ pc = "prompt"
    /\ \E r \in Answers :
          /\ resp' = r
          /\ IF ~Accepted(r)
             THEN /\ browser' = "closed"
                  /\ trace' = trace \o << Event("input", 0, 0), Event("close", 0, 0) >>
                  /\ pc' = "cancelled"
                  /\ UNCHANGED << i, shots >>
             ELSE /\ shots' = << >>
                  /\ trace' = Append(trace, Event("input", 0, 0))
                  /\ i' = 1
                  /\ pc' = "goto"
                  /\ UNCHANGED browser
    /\ UNCHANGED << SECTIONS, USE_ELEMENT_CAPTURE, CROP_MARGINS, url, sel, probes,
                    canvas_loc, fullShot, disk, c, pdf, err, failedAt >>

\* lines 194-196: page.goto(url) of the i-th view; an error is not caught
Navigate ==
    /\ pc = "goto"
    /\ trace' = Append(trace, Event("goto", i, 0))
    /\ \/ /\ url' = tab_url(SECTIONS[i])
          /\ pc' = "wait_nav"
          /\ UNCHANGED << browser, err, failedAt >>
       \/ /\ browser' = "stopped"
          /\ pc' = "crashed"
          /\ err' = "nav"
          /\ failedAt' = i
          /\ UNCHANGED url
    /\ UNCHANGED << SECTIONS, USE_ELEMENT_CAPTURE, CROP_MARGINS, resp, i, sel, probes,
                    canvas_loc, fullShot, disk, shots, c, pdf >>

\* line 85: the first sleep of wait_fixed
SleepAfterNav ==
    /\ pc = "wait_nav"
    /\ trace' = Append(trace, Event("sleep", i, wait_fixed[1]))
    /\ pc' = "wait_render"
    /\ UNCHANGED << SECTIONS, USE_ELEMENT_CAPTURE, CROP_MARGINS, browser, url, resp, i,
                    sel, probes, canvas_loc, fullShot, disk, shots, c, pdf, err, failedAt >>

\* line 86: the second sleep of wait_fixed
SleepRenderBuffer ==
    /\ pc = "wait_render"
    /\ trace' = Append(trace, Event("sleep", i, wait_fixed[2]))
    /\ pc' = "shoot"
    /\ UNCHANGED << SECTIONS, USE_ELEMENT_CAPTURE, CROP_MARGINS, browser, url, resp, i,
                    sel, probes, canvas_loc, fullShot, disk, shots, c, pdf, err, failedAt >>

\* lines 199-200, 110-111: screenshot_clean is entered
EnterScreenshotClean ==
    /\ pc = "shoot"
    /\ IF USE_ELEMENT_CAPTURE
       THEN pc' = "find" /\ sel' = 1
       ELSE pc' = "full" /\ sel' = 0
    /\ UNCHANGED << SECTIONS, USE_ELEMENT_CAPTURE, CROP_MARGINS, browser, url, resp, i,
                    probes, canvas_loc, fullShot, disk, shots, c, pdf, err, failedAt,
                    trace >>

\* lines 94-103, 112: one turn of find_report_canvas's loop
Probe ==
    /\ pc = "find"
    /\ sel <= Len(CANVAS_SELECTORS)
    /\ \E o \in ProbeOutcomes :
          /\ probes' = Append(probes, [selector |-> SelectorAt(sel), outcome |-> o])
          /\ IF o = "visible"
             THEN /\ canvas_loc' = SelectorAt(sel)
                  /\ pc' = "element"
                  /\ UNCHANGED << sel, err, browser >>
             ELSE IF Caught(o)
             THEN /\ sel' = sel + 1
                  /\ pc' = IF sel + 1 > Len(CANVAS_SELECTORS) THEN "full" ELSE "find"
                  /\ UNCHANGED << canvas_loc, err, browser >>
             ELSE /\ pc' = "crashed"
                  /\ err' = "locator"
                  /\ browser' = "stopped"
                  /\ UNCHANGED << sel, canvas_loc >>
    /\ UNCHANGED << SECTIONS, USE_ELEMENT_CAPTURE, CROP_MARGINS, url, resp, i,
                    fullShot, disk, shots, c, pdf, failedAt, trace >>

\* lines 113-114: canvas_loc.screenshot(path)
ElementScreenshot ==
    /\ pc = "element"
    /\ \E size \in ElementSizes, d \in ShotDpis :
          disk' = WriteFile(disk, img_path,
                     [w |-> size[1], h |-> size[2], dpi |-> d,
                      bytes |-> [enc |-> "browser", of |-> canvas_loc, view |-> i,
                                 sel |-> sel, box |-> << 0, 0, 0, 0 >>]])
    /\ pc' = "saved"
    /\ UNCHANGED << SECTIONS, USE_ELEMENT_CAPTURE, CROP_MARGINS, browser, url, resp, i,
                    sel, probes, canvas_loc, fullShot, shots, c, pdf, err, failedAt,
                    trace >>

\* lines 117-118: page.screenshot(path=tmp_full, full_page=True)
FullPageScreenshot ==
    /\ pc = "full"
    /\ \E size \in FullSizes, d \in ShotDpis :
          /\ fullShot' = [w |-> size[1], h |-> size[2], dpi |-> d,
                          bytes |-> [enc |-> "browser", of |-> "page", view |-> i,
                                     sel |-> 0, box |-> << 0, 0, 0, 0 >>]]
          /\ disk' = WriteFile(disk, tmp_full, fullShot')
    /\ pc' = "crop"
    /\ UNCHANGED << SECTIONS, USE_ELEMENT_CAPTURE, CROP_MARGINS, browser, url, resp, i,
                    sel, probes, canvas_loc, shots, c, pdf, err, failedAt, trace >>

\* lines 120-131: crop the margins off the full capture, or keep it as it is
CropOrKeep ==
    /\ pc = "crop"
    /\ IF AnyMargin(CROP_MARGINS)
       THEN LET im  == disk[tmp_full]
                box == CropBox(im.w, im.h, CROP_MARGINS)
            IN  \E d \in {NoDpi, im.dpi} :
                   disk' = WriteFile(disk, img_path,
                              [w |-> CropSize(box)[1], h |-> CropSize(box)[2], dpi |-> d,
                               bytes |-> [im.bytes EXCEPT !.enc = "pil", !.box = box]])
       ELSE disk' = RenameFile(disk, tmp_full, img_path)
    /\ pc' = "saved"
    /\ UNCHANGED << SECTIONS, USE_ELEMENT_CAPTURE, CROP_MARGINS, browser, url, resp, i,
                    sel, probes, canvas_loc, fullShot, shots, c, pdf, err, failedAt,
                    trace >>

\* lines 201-202 and the loop's next turn
AppendShot ==
    /\ pc = "saved"
    /\ shots' = Append(shots, img_path)
    /\ trace' = Append(trace, Event("capture", i, 0))
    /\ i' = i + 1
    /\ pc' = IF i + 1 > N THEN "close" ELSE "goto"
    \* screenshot_clean has returned: its locals, and find_report_canvas's, are gone
    /\ sel' = 0
    /\ probes' = << >>
    /\ canvas_loc' = ""
    /\ fullShot' = NoImage
    /\ UNCHANGED << SECTIONS, USE_ELEMENT_CAPTURE, CROP_MARGINS, browser, url, resp,
                    disk, c, pdf, err, failedAt >>

\* line 204: browser.close(), and the with block is left
BrowserClose ==
    /\ pc = "close"
    /\ browser' = "closed"
    /\ trace' = Append(trace, Event("close", 0, 0))
    /\ pc' = "assemble"
    /\ UNCHANGED << SECTIONS, USE_ELEMENT_CAPTURE, CROP_MARGINS, url, resp, i, sel,
                    probes, canvas_loc, fullShot, disk, shots, c, pdf, err, failedAt >>

\* lines 206, 146: merge_pngs_to_pdf is called and makes its canvas
MergeOpen ==
    /\ pc = "assemble"
    /\ c' = << >>
    /\ trace' = Append(trace, Event("assemble", 0, 0))
    /\ pc' = "merge"
    /\ UNCHANGED << SECTIONS, USE_ELEMENT_CAPTURE, CROP_MARGINS, browser, url, resp, i,
                    sel, probes, canvas_loc, fullShot, disk, shots, pdf, err, failedAt >>

\* lines 147-159: one image becomes one page
MergePage ==
    /\ pc = "merge"
    /\ Len(c) < Len(shots)
    /\ LET p  == NextImage(c, shots)
           im == disk[p]
       IN  c' = Append(c, [src |-> p, img |-> im, size |-> PageSize(im)])
    /\ UNCHANGED << SECTIONS, USE_ELEMENT_CAPTURE, CROP_MARGINS, pc, browser, url, resp,
                    i, sel, probes, canvas_loc, fullShot, disk, shots, pdf, err,
                    failedAt, trace >>

\* line 160: c.save() writes the document
MergeSave ==
    /\ pc = "merge"
    /\ Len(c) = Len(shots)
    /\ pdf' = c
    /\ pc' = "done"
    /\ UNCHANGED << SECTIONS, USE_ELEMENT_CAPTURE, CROP_MARGINS, browser, url, resp, i,
                    sel, probes, canvas_loc, fullShot, disk, shots, c, err, failedAt,
                    trace >>

Next ==
    \/ OpenFirst
    \/ Confirm
    \/ Navigate
    \/ SleepAfterNav
    \/ SleepRenderBuffer
    \/ EnterScreenshotClean
    \/ Probe
    \/ ElementScreenshot
    \/ FullPageScreenshot
    \/ CropOrKeep
    \/ AppendShot
    \/ BrowserClose
    \/ MergeOpen
    \/ MergePage
    \/ MergeSave

Spec == Init /\ [][Next]_vars


(***************************************************************************)
(* SpecCrop: the crop step of screenshot_clean (lines 120-131) applied to  *)
(* bounded full captures and margins.  The state is the one main() is in   *)
(* when page.screenshot has just written tmp_full for its only view.       *)
(***************************************************************************)
CropSizes ==
    { << w, h >> : w \in 1 .. MaxDim, h \in 1 .. MaxDim } \cup FullSizes

CropMargins ==
    [left : -1 .. MaxMargin, right : -1 .. MaxMargin,
     top : -1 .. MaxMargin, bottom : -1 .. MaxMargin] \cup MarginChoices

InitCrop ==
    /\ SECTIONS = SubSeq(AllSections, 1, 1)
    /\ USE_ELEMENT_CAPTURE = FALSE
    /\ CROP_MARGINS \in CropMargins
    /\ pc = "crop"
    /\ browser = "open"
    /\ url = tab_url(AllSections[1])
    /\ resp = << "y" >>
    /\ i = 1
    /\ sel = 0
    /\ probes = << >>
    /\ canvas_loc = ""
    /\ \E size \in CropSizes :
          fullShot = [w |-> size[1], h |-> size[2], dpi |-> NoDpi,
                      bytes |-> [enc |-> "browser", of |-> "page", view |-> 1,
                                 sel |-> 0, box |-> << 0, 0, 0, 0 >>]]
    /\ disk = WriteFile(EmptyDir, WithSuffix(ImgPath(1, AllSections[1]), ".full.png"),
                        fullShot)
    /\ shots = << >>
    /\ c = << >>
    /\ pdf = NoPdf
    /\ err = "none"
    /\ failedAt = 0
    /\ trace = << Event("open_first", 1, 0), Event("input", 0, 0), Event("goto", 1, 0),
                  Event("sleep", 1, wait_fixed[1]), Event("sleep", 1, wait_fixed[2]) >>

NextCrop == CropOrKeep

SpecCrop == InitCrop /\ [][NextCrop]_vars

(***************************************************************************)
(* SpecMerge: merge_pngs_to_pdf (lines 134-160) applied to bounded lists   *)
(* of image files.  The state is the one main() is in at line 206.         *)
(***************************************************************************)
MergeSizes == { << VIEWPORT_W, VIEWPORT_H >>, << 1780, 1055 >>, << 1, 1 >> }

MergeDpis ==
    { NoDpi, << 96, 96 >>, << 192, 192 >>, << 72, 144 >>, << 0, 96 >>, << 96, 0 >>,
      << 0, 0 >> }

MergeImages ==
    { [w |-> size[1], h |-> size[2], dpi |-> d,
       bytes |-> [enc |-> "browser", of |-> "page", view |-> 0, sel |-> 0,
                  box |-> << 0, 0, 0, 0 >>]] : size \in MergeSizes, d \in MergeDpis }

InitMerge ==
    /\ \E n \in 1 .. MaxImages :
          /\ SECTIONS = SubSeq(AllSections, 1, n)
          /\ shots = [k \in 1 .. n |-> ImgPath(k, AllSections[k])]
          /\ i = n + 1
          /\ disk \in [{ ImgPath(k, AllSections[k]) : k \in 1 .. n } -> MergeImages]
    /\ USE_ELEMENT_CAPTURE = TRUE
    /\ CROP_MARGINS = SourceMargins
    /\ pc = "assemble"
    /\ browser = "closed"
    /\ url = tab_url(SECTIONS[Len(SECTIONS)])
    /\ resp = << "y" >>
    /\ sel = 0
    /\ probes = << >>
    /\ canvas_loc = ""
    /\ fullShot = NoImage
    /\ c = << >>
    /\ pdf = NoPdf
    /\ err = "none"
    /\ failedAt = 0
    /\ trace = << >>

NextMerge ==
    \/ MergeOpen
    \/ MergePage
    \/ MergeSave

SpecMerge == InitMerge /\ [][NextMerge]_vars


(***************************************************************************)
(* Properties                                                              *)
(***************************************************************************)
\* the name the run gives the k-th view's image: tab_<k, two digits>_<id>.png
ExpectedName(k) ==
    [stem |-> << "tab_", << "0", DigitChars[k + 1] >>, "_", SECTIONS[k] >>,
     suffix |-> ".png"]

LoopFinished == pc \in {"close", "assemble", "merge", "done"}

\* C1: once the loop over the N views has finished without an error, OUTPUT_DIR
\* holds exactly the N files tab_01_<id1>.png .. tab_NN_<idN>.png written by the
\* run and no other file, whichever capture path each view took.
C1_ExactlyOneImagePerView ==
    LoopFinished => DOMAIN disk = { ExpectedName(k) : k \in 1 .. N }

\* an answer that is "y" once trimmed and lower-cased: one y or Y, the rest whitespace
IsYes(r) ==
    \E k \in DOMAIN r :
        /\ r[k] \in {"y", "Y"}
        /\ \A j \in (DOMAIN r) \ {k} : r[j] \in Whitespace

Declined == resp # Unset /\ ~IsYes(resp)

LoopEvents == {"goto", "sleep", "capture", "assemble"}

\* C2: when the operator's answer is anything but y (trimmed, lower-cased), the run
\* ends cancelled with no error, the browser closed, no navigation or capture of the
\* loop performed, no image file written and no output document created.
C2_DeclineIsClean ==
    Declined =>
        /\ pc = "cancelled"
        /\ err = "none"
        /\ browser = "closed"
        /\ \A k \in DOMAIN trace : trace[k].ev \notin LoopEvents
        /\ shots = << >>
        /\ disk = EmptyDir
        /\ c = << >>
        /\ pdf = NoPdf

C2_Witness == pc = "cancelled" /\ resp = << "y", "e", "s" >> /\ browser = "closed"

\* C3: the document of a completed run has one page per configured view, and page k
\* is built from the file of the k-th view, which holds the capture of the k-th view;
\* while the document is assembled its pages are a prefix of that sequence.
C3_OnePagePerViewInOrder ==
    /\ pc = "done" => Len(pdf) = N /\ Len(pdf) = Len(shots) /\ pdf = c
    /\ pc \in {"merge", "done"} =>
          /\ Len(c) <= N
          /\ \A k \in DOMAIN c :
                /\ c[k].src = ExpectedName(k)
                /\ c[k].src = shots[k]
                /\ c[k].img = disk[ExpectedName(k)]
                /\ c[k].img.bytes.view = k

C3_Witness == pc = "done" /\ N >= 2 /\ Len(pdf) = N

\* the density the claim names for one axis: the image's own value when it is
\* embedded and non-zero, 96 otherwise
OwnDpi(im, axis) == IF im.dpi # NoDpi /\ im.dpi[axis] # 0 THEN im.dpi[axis] ELSE 96

\* a fraction << n, d >> equals a / b
FracIs(f, a, b) == f[1] * b = a * f[2]

\* C4: page k measures (W * 72 / Dx, H * 72 / Dy) points, W x H being image k's
\* pixel size and Dx, Dy its own horizontal and vertical density (96 where the
\* metadata is missing or zero).
C4_PageSizeAtOwnDpi ==
    \A k \in DOMAIN c :
        /\ FracIs(c[k].size[1], c[k].img.w * 72, OwnDpi(c[k].img, 1))
        /\ FracIs(c[k].size[2], c[k].img.h * 72, OwnDpi(c[k].img, 2))

MarginsFit(w, h, m) ==
    /\ m.left >= 0 /\ m.right >= 0 /\ m.top >= 0 /\ m.bottom >= 0
    /\ m.left + m.right <= w
    /\ m.top + m.bottom <= h

\* C5: on the fallback path, with non-negative margins that fit the W x H capture,
\* the image saved for the view measures (W - left - right, H - top - bottom); a
\* 1920 x 1200 capture with margins 140, 0, 0, 145 gives 1780 x 1055.
C5_CroppedSize ==
    (pc = "saved" /\ fullShot # NoImage) =>
        /\ MarginsFit(fullShot.w, fullShot.h, CROP_MARGINS) =>
              /\ disk[img_path].w = fullShot.w - CROP_MARGINS.left - CROP_MARGINS.right
              /\ disk[img_path].h = fullShot.h - CROP_MARGINS.top - CROP_MARGINS.bottom
        /\ (fullShot.w = 1920 /\ fullShot.h = 1200 /\ CROP_MARGINS = SourceMargins) =>
              /\ disk[img_path].w = 1780
              /\ disk[img_path].h = 1055

C5_Witness ==
    /\ pc = "saved"
    /\ fullShot.w = 1920 /\ fullShot.h = 1200
    /\ CROP_MARGINS = [left |-> 140, right |-> 0, top |-> 0, bottom |-> 145]
    /\ disk[img_path].w = 1780 /\ disk[img_path].h = 1055
    /\ disk[img_path].bytes.enc = "pil"

\* C6: on the fallback path with all four margins zero, nothing is cropped or
\* re-encoded: the file saved for the view is the full capture itself, byte for byte.
C6_ZeroMarginsKeepCapture ==
    (pc = "saved" /\ fullShot # NoImage /\ CROP_MARGINS = ZeroMargins) =>
        /\ disk[img_path] = fullShot
        /\ disk[img_path].bytes.enc = "browser"
        /\ tmp_full \notin DOMAIN disk

C6_Witness ==
    /\ pc = "saved"
    /\ fullShot # NoImage
    /\ CROP_MARGINS = ZeroMargins
    /\ disk[img_path].bytes = fullShot.bytes

AllMissed ==
    /\ Len(probes) = Len(CANVAS_SELECTORS)
    /\ \A k \in DOMAIN probes : probes[k].outcome # "visible"

\* C7: when every locator candidate times out or fails, find_report_canvas returns
\* None without raising and screenshot_clean goes on to the full-page capture and
\* saves the view's image from it; no probe ever aborts the run.
C7_LocatorMissFallsBack ==
    /\ err # "locator"
    /\ probes # << >> => pc # "crashed"
    /\ AllMissed =>
          /\ pc \in {"full", "crop", "saved"}
          /\ canvas_loc = ""
    /\ (AllMissed /\ pc = "saved") =>
          /\ img_path \in DOMAIN disk
          /\ disk[img_path].bytes.of = "page"
          /\ disk[img_path].bytes.view = i

C7_Witness ==
    /\ AllMissed
    /\ pc = "saved"
    /\ \E k \in DOMAIN probes : probes[k].outcome = "error"
    /\ \E k \in DOMAIN probes : probes[k].outcome = "timeout"
    /\ img_path \in DOMAIN disk

\* C8: the candidates are probed in their declared order, nothing is probed after
\* the first visible one, the element captured is that first visible candidate, and
\* a view captured from an element has no full-page capture and no crop.
C8_FirstVisibleCandidateWins ==
    /\ \A k \in DOMAIN probes :
          /\ probes[k].selector = CANVAS_SELECTORS[k]
          /\ k < Len(probes) => probes[k].outcome # "visible"
    /\ (probes # << >> /\ probes[Len(probes)].outcome = "visible") =>
          /\ pc \in {"element", "saved"}
          /\ canvas_loc = CANVAS_SELECTORS[Len(probes)]
    /\ canvas_loc # "" =>
          /\ probes # << >>
          /\ probes[Len(probes)].outcome = "visible"
    /\ (pc = "saved" /\ canvas_loc # "") =>
          /\ disk[img_path].bytes.of = canvas_loc
          /\ disk[img_path].bytes.enc = "browser"
          /\ disk[img_path].bytes.view = i
          /\ fullShot = NoImage
          /\ tmp_full \notin DOMAIN disk

C8_Witness ==
    /\ pc = "saved"
    /\ Len(probes) = 3
    /\ canvas_loc = "[data-testid=report-view-container]"
    /\ disk[img_path].bytes.of = canvas_loc

ViewEvents(k) ==
    << Event("goto", k, 0), Event("sleep", k, AFTER_NAV_WAIT_SEC),
       Event("sleep", k, RENDER_BUFFER_SEC), Event("capture", k, 0) >>

RECURSIVE ViewsTrace(_)
ViewsTrace(k) == IF k = 0 THEN << >> ELSE ViewsTrace(k - 1) \o ViewEvents(k)

FullTrace ==
    << Event("open_first", 1, 0), Event("input", 0, 0) >> \o ViewsTrace(N)
       \o << Event("close", 0, 0), Event("assemble", 0, 0) >>

CancelTrace ==
    << Event("open_first", 1, 0), Event("input", 0, 0), Event("close", 0, 0) >>

IsPrefix(a, b) == Len(a) <= Len(b) /\ a = SubSeq(b, 1, Len(a))

\* C9: the events of a run come in one fixed order: open the first view, wait for
\* the operator, then per view in configured order navigate, sleep AFTER_NAV_WAIT_SEC,
\* sleep RENDER_BUFFER_SEC, capture; then close the browser, then assemble.  Nothing
\* is captured before the answer, and assembly starts with every view captured and
\* the browser closed.
C9_FixedEventOrder ==
    /\ IsPrefix(trace, FullTrace) \/ trace = CancelTrace
    /\ pc = "prompt" => url = tab_url(SECTIONS[1]) /\ Len(trace) = 1
    /\ resp = Unset => disk = EmptyDir /\ shots = << >> /\ Len(trace) <= 1
    /\ pc \in {"wait_nav", "wait_render", "shoot", "find", "element", "full", "crop",
               "saved"} =>
          /\ url = tab_url(SECTIONS[i])
          /\ Len(shots) = i - 1
    /\ (pc \in {"merge", "done"} \/ c # << >> \/ pdf # NoPdf) =>
          /\ browser = "closed"
          /\ Len(shots) = N
          /\ \A k \in 1 .. N : shots[k] \in DOMAIN disk

C9_Witness == pc = "done" /\ N >= 2 /\ trace = FullTrace /\ pdf # NoPdf

\* C10: when the navigation to view k raises in the loop, the run ends there: the
\* navigation is attempted once, no later view is navigated or captured, nothing is
\* assembled, and OUTPUT_DIR holds exactly the k-1 images captured before.
C10_NavigationFailureStops ==
    (pc = "crashed" /\ err = "nav" /\ failedAt >= 1) =>
        /\ Cardinality({ j \in DOMAIN trace :
                            trace[j].ev = "goto" /\ trace[j].view = failedAt }) = 1
        /\ \A j \in DOMAIN trace : trace[j].view <= failedAt
        /\ \A j \in DOMAIN trace : trace[j].ev \notin {"assemble"}
        /\ trace[Len(trace)] = Event("goto", failedAt, 0)
        /\ c = << >>
        /\ pdf = NoPdf
        /\ Len(shots) = failedAt - 1
        /\ DOMAIN disk = { ExpectedName(j) : j \in 1 .. (failedAt - 1) }


====
